---- MODULE Spec2Model ----
(***************************************************************************)
(* Model of the Cynthion capture backend (src/backend/cynthion.rs):        *)
(*   - the capture thread started by CynthionHandle::start (enable write,  *)
(*     transfer queue, select_biased event loop, disable write, result     *)
(*     handler),                                                           *)
(*   - the stop handle CynthionStop (stop / drop),                         *)
(*   - the packet stream CynthionStream (next / next_buffered_packet).     *)
(*                                                                         *)
(* Specifications:                                                         *)
(*   Spec / FairSpec : the whole capture session; the USB transport is the *)
(*                     environment and completes transfers with any status.*)
(*   DeframeSpec     : the stream alone, fed a chosen byte stream through  *)
(*                     the channel in every split into chunks.             *)
(*   CodecSpec       : speeds() on every response byte, and the State byte *)
(*                     built and modified for every (enabled, speed).      *)
(***************************************************************************)
EXTENDS Integers, Sequences, FiniteSets, TLC

(* ------------------------------------------------------------------ *)
(* Program constants                                                   *)
(* ------------------------------------------------------------------ *)

\* const NUM_TRANSFERS: usize = 4;
NUM_TRANSFERS == 4

\* enum Speed { High, Full, Low, Auto }
High == "High"
Full == "Full"
Low  == "Low"
Auto == "Auto"
Speed == {High, Full, Low, Auto}

\* #[repr(u8)] with IntoPrimitive: u8::from(speed), the discriminant.
Speed_into_u8(sp) ==
    CASE sp = High -> 0
      [] sp = Full -> 1
      [] sp = Low  -> 2
      [] sp = Auto -> 3

\* FromPrimitive with #[default] High: Speed::from(n).
Speed_from_u8(n) ==
    CASE n = 1 -> Full
      [] n = 2 -> Low
      [] n = 3 -> Auto
      [] OTHER -> High

\* a & b on bytes.
RECURSIVE BitAnd(_, _)
BitAnd(a, b) ==
    IF a = 0 \/ b = 0 THEN 0
    ELSE (a % 2) * (b % 2) + 2 * BitAnd(a \div 2, b \div 2)

\* Mutant: the mask bit is the bit numbered by the discriminant.
mask_by_discriminant(sp) ==
    CASE sp = High -> 1
      [] sp = Full -> 2
      [] sp = Low  -> 4
      [] sp = Auto -> 8

\* Speed::mask
mask(sp) ==
    CASE sp = Auto -> 1
      [] sp = Low  -> 2
      [] sp = Full -> 4
      [] sp = High -> 8

\* speeds(), lines 242-248: the loop over [Auto, High, Full, Low] pushing
\* every speed whose mask bit is set in the byte.
RECURSIVE push_supported(_, _)
push_supported(order, byte) ==
    IF order = <<>> THEN <<>>
    ELSE (IF BitAnd(byte, mask(Head(order))) # 0
          THEN <<Head(order)>> ELSE <<>>)
         \o push_supported(Tail(order), byte)

\* CynthionDevice::speeds, lines 225-249, given the size and the first byte
\* of the response to the speed request: an error unless the size is 1.
speeds(size, byte) ==
    IF size # 1
    THEN [ok |-> FALSE, list |-> <<>>]
    ELSE [ok |-> TRUE, list |-> push_supported(<<Auto, High, Full, Low>>, byte)]

(* ------------------------------------------------------------------ *)
(* Bounds of the model                                                 *)
(* ------------------------------------------------------------------ *)

\* Successful transfer completions the transport delivers in one session.
MaxOk == 2
\* next() calls made after the stream has returned end-of-sequence.
MaxEnd == 1
\* DeframeSpec: bytes of the input stream (packets and trailing fragment).
MaxWire == 5
\* DeframeSpec: chunks waiting in the channel at once.
MaxChan == 2

(* ------------------------------------------------------------------ *)
(* Byte sequences                                                      *)
(* ------------------------------------------------------------------ *)

SeqsUpTo(S, n) == UNION {[1..k -> S] : k \in 0..n}

\* Values of the bytes the input streams of DeframeSpec are drawn from.
WireBytes == {0, 1, 2}

\* Data a successful bulk transfer may carry in Spec (completion.data).
Chunks == {<<0>>, <<0, 1, 5>>}

\* u16::from_be_bytes([b0, b1]) as usize
from_be_bytes(b0, b1) == b0 * 256 + b1

\* The wire format the deframer reads: every packet is preceded by its
\* length as a 2-byte big-endian number.
RECURSIVE Serialize(_)
Serialize(pkts) ==
    IF pkts = <<>> THEN <<>>
    ELSE LET p == Head(pkts)
         IN  <<Len(p) \div 256, Len(p) % 256>> \o p \o Serialize(Tail(pkts))

\* Result of next_buffered_packet: Option<Vec<u8>> and the buffer it leaves.
NoPacket(buf) == [some |-> FALSE, packet |-> <<>>, buffer |-> buf]

\* Mutant: the length checks use < instead of <= (an exact fit is extracted).
next_buffered_packet_exact_fit(buf) ==
    LET buffer_len == Len(buf)
    IN  IF buffer_len < 2 THEN NoPacket(buf)
        ELSE LET packet_len == from_be_bytes(buf[1], buf[2])
             IN  IF buffer_len < 2 + packet_len THEN NoPacket(buf)
                 ELSE [some   |-> TRUE,
                       packet |-> SubSeq(buf, 3, 2 + packet_len),
                       buffer |-> SubSeq(buf, 3 + packet_len, buffer_len)]

\* Mutant: the second length check is missing; whatever payload is buffered
\* is drained.
next_buffered_packet_no_payload_check(buf) ==
    LET buffer_len == Len(buf)
    IN  IF buffer_len <= 2 THEN NoPacket(buf)
        ELSE LET packet_len == from_be_bytes(buf[1], buf[2])
                 avail == IF buffer_len - 2 < packet_len
                          THEN buffer_len - 2 ELSE packet_len
             IN  [some   |-> TRUE,
                  packet |-> SubSeq(buf, 3, 2 + avail),
                  buffer |-> SubSeq(buf, 3 + avail, buffer_len)]

\* CynthionStream::next_buffered_packet
next_buffered_packet(buf) ==
    LET buffer_len == Len(buf)
    IN  IF buffer_len <= 2 THEN NoPacket(buf)
        ELSE LET packet_len == from_be_bytes(buf[1], buf[2])
             IN  IF buffer_len <= 2 + packet_len THEN NoPacket(buf)
                 ELSE [some   |-> TRUE,
                       packet |-> SubSeq(buf, 3, 2 + packet_len),
                       buffer |-> SubSeq(buf, 3 + packet_len, buffer_len)]


(* ------------------------------------------------------------------ *)
(* State byte                                                          *)
(* ------------------------------------------------------------------ *)

\* bitfield setter `set_enable`: bit 0 of the byte.
set_enable(st, enable) == (st \div 2) * 2 + (IF enable THEN 1 ELSE 0)

\* bitfield getter `enable`: bit 0 of the byte.
enable_of(st) == st % 2 = 1

\* Mutant: the speed field starts at bit 2 instead of bit 1.
set_speed_shifted(st, sp) ==
    (st \div 16) * 16 + (Speed_into_u8(sp) % 4) * 4 + (st % 4)

\* bitfield setter `set_speed`: bits 2..1 of the byte (u8::from(speed)).
set_speed(st, sp) ==
    (st \div 8) * 8 + (Speed_into_u8(sp) % 4) * 2 + (st % 2)

\* bitfield getter `speed`: bits 2..1 of the byte (Speed::from(u8)).
speed_of(st) == Speed_from_u8((st \div 2) % 4)

\* State::new
State_new(enable, sp) == set_speed(set_enable(0, enable), sp)

(* ------------------------------------------------------------------ *)
(* State                                                               *)
(* ------------------------------------------------------------------ *)

VARIABLES
    speed,        \* argument of start()
    wpc,          \* capture thread: "start", "loop" (top of an iteration),
                  \*   "polled" (past stop_rx, at next_complete),
                  \*   "exiting" (capture_task returned or the enable write
                  \*   failed; tx, stop_rx and the queue being dropped),
                  \*   "unwinding" (panic, likewise), "disable", "report",
                  \*   "handler" (inside result_handler), "done" (thread
                  \*   returned), "panicked" (thread unwound)
    state,        \* run_capture's local `state` byte
    stopped,      \* run_capture's local `stopped` flag
    pending,      \* data_transfer_queue: the pending transfers, oldest first
    writes,       \* write_state requests issued to the device, in order
    loopResult,   \* what capture_task returned ("none" while it runs)
    runResult,    \* what run_capture returned ("none" until it returns)
    handlerCalls, \* invocations of result_handler
    handlerArg,   \* the argument of the last invocation
    txAlive,      \* mpsc Sender `tx` not yet dropped
    stopRxAlive,  \* oneshot Receiver `stop_rx` not yet dropped
    queueAlive,   \* data_transfer_queue created and not yet dropped
    signal,       \* oneshot channel: "open", "value", "canceled" (the
                  \*   sender was dropped under the loop's poll, which
                  \*   returns Err(Canceled)), "taken", "closed"
    cpc,          \* owner of CynthionStop: "hold", "joining", "returned",
                  \*   "dropped"
    stopRet,      \* what stop() returned ("none" until it returns)
    okCount,      \* successful completions delivered by the transport
    nSent,        \* chunks sent on the channel so far
    nSubmitted,   \* bulk transfers submitted so far
    rxAlive,      \* mpsc Receiver (the CynthionStream) not yet dropped
    chan,         \* chunks in the mpsc channel, oldest first
    buffer,       \* CynthionStream::buffer
    yielded,      \* packets returned by next() so far
    spc,          \* stream reader: "idle", "recv" (inside next(), in recv())
    endCount,     \* times next() has returned None
    wire,         \* DeframeSpec: the whole input byte stream
    unsent,       \* DeframeSpec: input bytes the producer has still to send
    sentBytes,    \* history: all bytes sent on the channel so far, in order
    codec         \* CodecSpec: inputs and results of speeds() and State

workerVars == <<wpc, state, stopped, pending, writes, loopResult, runResult,
                handlerCalls, handlerArg, stopRxAlive, queueAlive, okCount, nSubmitted>>
callerVars == <<cpc, stopRet>>
streamVars == <<buffer, yielded, spc, endCount>>
inputVars  == <<speed, wire>>
vars == <<workerVars, callerVars, streamVars, inputVars, signal, txAlive,
          rxAlive, chan, nSent, unsent, sentBytes, codec>>

\* A bulk transfer in the queue: its status ("inflight" until the transport
\* completes it), the data it carries when successful, and whether
\* cancellation was requested for it.
Transfer(st, data, c) == [st |-> st, data |-> data, cancel |-> c]
NewTransfer == Transfer("inflight", <<>>, FALSE)

\* Statuses a completed transfer can carry: Ok(()), Err(Cancelled), or
\* another TransferError (Stall stands for all of them).
Statuses == {"ok", "cancelled", "stall"}

\* Queue::submit
submit(q) == Append(q, NewTransfer)

\* Mutant: the queue is filled while pending() <= NUM_TRANSFERS.
RECURSIVE fill_inclusive(_)
fill_inclusive(q) ==
    IF Len(q) <= NUM_TRANSFERS THEN fill_inclusive(submit(q)) ELSE q

\* while data_transfer_queue.pending() < NUM_TRANSFERS { submit }
RECURSIVE fill(_)
fill(q) == IF Len(q) < NUM_TRANSFERS THEN fill(submit(q)) ELSE q

\* Mutant: cancel_all cancels nothing.
cancel_none(q) == q

\* Queue::cancel_all
cancel_all(q) == [i \in 1..Len(q) |-> [q[i] EXCEPT !.cancel = TRUE]]

\* The speed query and the state byte as CodecSpec exercises them: the
\* response to the speed request (its size and first byte), the result of
\* speeds() once called, the `enabled` argument of State::new, and how far
\* the state byte has got ("none", "new", "cleared").
Codec(size, byte, result, en, phase) ==
    [size |-> size, byte |-> byte, called |-> result.called,
     ok |-> result.ok, list |-> result.list, enabled |-> en, phase |-> phase]
NotCalled == [called |-> FALSE, ok |-> FALSE, list |-> <<>>]
NoCodec == Codec(1, 0, NotCalled, TRUE, "none")

Init ==
    /\ speed \in Speed
    /\ wpc = "start"
    /\ state = 0
    /\ stopped = FALSE
    /\ pending = <<>>
    /\ writes = <<>>
    /\ loopResult = "none"
    /\ runResult = "none"
    /\ handlerCalls = 0
    /\ handlerArg = "none"
    /\ txAlive = TRUE
    /\ stopRxAlive = TRUE
    /\ queueAlive = FALSE
    /\ signal = "open"
    /\ cpc = "hold"
    /\ stopRet = "none"
    /\ okCount = 0
    /\ nSent = 0
    /\ nSubmitted = 0
    /\ rxAlive = TRUE
    /\ chan = <<>>
    /\ buffer = <<>>
    /\ yielded = <<>>
    /\ spc = "idle"
    /\ endCount = 0
    /\ wire = <<>>
    /\ unsent = <<>>
    /\ sentBytes = <<>>
    /\ codec = NoCodec


(* ------------------------------------------------------------------ *)
(* Capture thread: CynthionHandle::start, run_capture                  *)
(* ------------------------------------------------------------------ *)

\* CynthionHandle::write_state: one control-out request carrying the state
\* byte; `ok` is whether the device accepted it.
write_state(w, st, ok) == Append(w, [value |-> st, ok |-> ok])

\* Error::from(usb_error)
UsbError(st) == IF st = "cancelled" THEN "TransferCancelled" ELSE "TransferStall"

\* The stop arm of select_biased can be taken: the receiver holds a value,
\* or its poll, already under way when the sender was dropped, returns
\* Err(Canceled), which the pattern `_ = stop_rx` accepts as well.  (A
\* receiver whose sender was dropped before the poll began reports itself
\* terminated, and select_biased does not poll a terminated future.)
StopReady == signal \in {"value", "canceled"}

\* The completion arm can be taken: the oldest pending transfer is complete.
CompletionReady == pending # <<>> /\ Head(pending).st # "inflight"

\* Mutant: the failure of the enable write is ignored (the `?` is missing).
EnableWrittenIgnoreError(ok) ==
    /\ wpc' = "loop"
    /\ queueAlive' = TRUE
    /\ pending' = fill(pending)
    /\ nSubmitted' = nSubmitted + Len(fill(pending)) - Len(pending)
    /\ UNCHANGED runResult

\* run_capture, lines 262-270, after write_state returned: on failure `?`
\* makes run_capture return the error (no transfer queue exists yet);
\* otherwise the transfer queue is created and filled and the loop entered.
EnableWritten(ok) ==
    IF ok
    THEN /\ wpc' = "loop"
         /\ queueAlive' = TRUE
         /\ pending' = fill(pending)
         /\ nSubmitted' = nSubmitted + Len(fill(pending)) - Len(pending)
         /\ UNCHANGED runResult
    ELSE /\ wpc' = "exiting"
         /\ runResult' = "WriteErr"
         /\ UNCHANGED <<pending, nSubmitted, queueAlive>>

\* run_capture, lines 261-270: build the enable state, write it, fill the
\* transfer queue.
StartCapture ==
    /\ wpc = "start"
    /\ \E ok \in BOOLEAN :
        LET st == State_new(TRUE, speed)
        IN  /\ state' = st
            /\ writes' = write_state(writes, st, ok)
            /\ EnableWritten(ok)
    /\ UNCHANGED <<stopped, loopResult, handlerCalls, handlerArg, okCount,
                   txAlive, stopRxAlive, callerVars, streamVars, inputVars,
                   signal, rxAlive, chan, nSent, unsent, sentBytes, codec>>

\* The thread is inside the loop of capture_task: at the top of an iteration
\* ("loop"), or past stop_rx and at next_complete(), perhaps parked there
\* ("polled").
InLoop == wpc \in {"loop", "polled"}

\* An arm of select_biased ends without returning: the loop goes round.
NextIteration ==
    /\ wpc' = "loop"
    /\ loopResult' = loopResult

\* An arm returns `result` from capture_task.  The future, and with it tx,
\* stop_rx and the transfer queue, lives until block_on drops it, one
\* captured variable after another.
ExitLoop(result) ==
    /\ loopResult' = result
    /\ wpc' = "exiting"

\* The stop arm, lines 276-280: stop_rx is polled first and is ready; cancel
\* all transfers, set the flag.
LoopStop ==
    /\ wpc = "loop"
    /\ StopReady
    /\ pending' = cancel_all(pending)
    /\ stopped' = TRUE
    /\ signal' = "taken"
    /\ UNCHANGED <<speed, wpc, state, writes, loopResult, runResult,
                   handlerCalls, handlerArg, txAlive, stopRxAlive, queueAlive, cpc,
                   stopRet, okCount, nSent, nSubmitted, rxAlive, chan,
                   streamVars, wire, unsent, sentBytes, codec>>

\* Line 276: stop_rx is polled first and is not ready (or is terminated and
\* skipped); select_biased goes on to next_complete().
LoopPollStop ==
    /\ wpc = "loop"
    /\ ~StopReady
    /\ wpc' = "polled"
    /\ UNCHANGED <<speed, state, stopped, pending, writes, loopResult,
                   runResult, handlerCalls, handlerArg, txAlive, stopRxAlive, queueAlive,
                   signal, cpc, stopRet, okCount, nSent, nSubmitted, rxAlive,
                   chan, streamVars, wire, unsent, sentBytes, codec>>

\* The loop, parked with neither future ready, is woken by the stop request
\* and polls again from the top.
LoopWake ==
    /\ wpc = "polled"
    /\ StopReady
    /\ pending # <<>>
    /\ wpc' = "loop"
    /\ UNCHANGED <<speed, state, stopped, pending, writes, loopResult,
                   runResult, handlerCalls, handlerArg, txAlive, stopRxAlive, queueAlive,
                   signal, cpc, stopRet, okCount, nSent, nSubmitted, rxAlive,
                   chan, streamVars, wire, unsent, sentBytes, codec>>

\* Mutant: a successful completion is forwarded whether or not the loop was
\* stopped (the `if !stopped` test is missing).
HandleCompletionForwardAlways(c, q) ==
    IF c.st = "ok"
    THEN IF TRUE
         THEN IF rxAlive
              THEN /\ chan' = Append(chan, c.data)
                   /\ nSent' = nSent + 1
                   /\ sentBytes' = sentBytes \o c.data
                   /\ pending' = submit(q)
                   /\ nSubmitted' = nSubmitted + 1
                   /\ NextIteration
              ELSE /\ ExitLoop("SendErr")
                   /\ pending' = q
                   /\ UNCHANGED <<chan, nSent, nSubmitted, sentBytes>>
         ELSE /\ pending' = q
              /\ NextIteration
              /\ UNCHANGED <<chan, nSent, nSubmitted, sentBytes>>
    ELSE IF c.st = "cancelled" /\ stopped
    THEN IF Len(q) = 0
         THEN /\ ExitLoop("Ok")
              /\ pending' = q
              /\ UNCHANGED <<chan, nSent, nSubmitted, sentBytes>>
         ELSE /\ pending' = q
              /\ NextIteration
              /\ UNCHANGED <<chan, nSent, nSubmitted, sentBytes>>
    ELSE /\ ExitLoop(UsbError(c.st))
         /\ pending' = q
         /\ UNCHANGED <<chan, nSent, nSubmitted, sentBytes>>

\* Mutant: a cancelled completion is discarded whether or not the loop was
\* stopped (the `if stopped` guard is missing).
HandleCompletionCancelledBenign(c, q) ==
    IF c.st = "ok"
    THEN IF ~stopped
         THEN IF rxAlive
              THEN /\ chan' = Append(chan, c.data)
                   /\ nSent' = nSent + 1
                   /\ sentBytes' = sentBytes \o c.data
                   /\ pending' = submit(q)
                   /\ nSubmitted' = nSubmitted + 1
                   /\ NextIteration
              ELSE /\ ExitLoop("SendErr")
                   /\ pending' = q
                   /\ UNCHANGED <<chan, nSent, nSubmitted, sentBytes>>
         ELSE /\ pending' = q
              /\ NextIteration
              /\ UNCHANGED <<chan, nSent, nSubmitted, sentBytes>>
    ELSE IF c.st = "cancelled"
    THEN IF Len(q) = 0
         THEN /\ ExitLoop("Ok")
              /\ pending' = q
              /\ UNCHANGED <<chan, nSent, nSubmitted, sentBytes>>
         ELSE /\ pending' = q
              /\ NextIteration
              /\ UNCHANGED <<chan, nSent, nSubmitted, sentBytes>>
    ELSE /\ ExitLoop(UsbError(c.st))
         /\ pending' = q
         /\ UNCHANGED <<chan, nSent, nSubmitted, sentBytes>>

\* Mutant: the first cancelled completion after a stop ends the loop (the
\* `pending() == 0` test is missing).
HandleCompletionEndsOnFirstCancel(c, q) ==
    IF c.st = "ok"
    THEN IF ~stopped
         THEN IF rxAlive
              THEN /\ chan' = Append(chan, c.data)
                   /\ nSent' = nSent + 1
                   /\ sentBytes' = sentBytes \o c.data
                   /\ pending' = submit(q)
                   /\ nSubmitted' = nSubmitted + 1
                   /\ NextIteration
              ELSE /\ ExitLoop("SendErr")
                   /\ pending' = q
                   /\ UNCHANGED <<chan, nSent, nSubmitted, sentBytes>>
         ELSE /\ pending' = q
              /\ NextIteration
              /\ UNCHANGED <<chan, nSent, nSubmitted, sentBytes>>
    ELSE IF c.st = "cancelled" /\ stopped
    THEN IF TRUE
         THEN /\ ExitLoop("Ok")
              /\ pending' = q
              /\ UNCHANGED <<chan, nSent, nSubmitted, sentBytes>>
         ELSE /\ pending' = q
              /\ NextIteration
              /\ UNCHANGED <<chan, nSent, nSubmitted, sentBytes>>
    ELSE /\ ExitLoop(UsbError(c.st))
         /\ pending' = q
         /\ UNCHANGED <<chan, nSent, nSubmitted, sentBytes>>

\* Mutant: the failure of tx.send is ignored (the `?` is missing).
HandleCompletionIgnoresSendError(c, q) ==
    IF c.st = "ok"
    THEN IF ~stopped
         THEN IF TRUE
              THEN /\ chan' = Append(chan, c.data)
                   /\ nSent' = nSent + 1
                   /\ sentBytes' = sentBytes \o c.data
                   /\ pending' = submit(q)
                   /\ nSubmitted' = nSubmitted + 1
                   /\ NextIteration
              ELSE /\ ExitLoop("SendErr")
                   /\ pending' = q
                   /\ UNCHANGED <<chan, nSent, nSubmitted, sentBytes>>
         ELSE /\ pending' = q
              /\ NextIteration
              /\ UNCHANGED <<chan, nSent, nSubmitted, sentBytes>>
    ELSE IF c.st = "cancelled" /\ stopped
    THEN IF Len(q) = 0
         THEN /\ ExitLoop("Ok")
              /\ pending' = q
              /\ UNCHANGED <<chan, nSent, nSubmitted, sentBytes>>
         ELSE /\ pending' = q
              /\ NextIteration
              /\ UNCHANGED <<chan, nSent, nSubmitted, sentBytes>>
    ELSE /\ ExitLoop(UsbError(c.st))
         /\ pending' = q
         /\ UNCHANGED <<chan, nSent, nSubmitted, sentBytes>>

\* The body of the completion arm, lines 282-305, for completion `c` with the
\* rest of the queue `q`.
HandleCompletion(c, q) ==
    IF c.st = "ok"
    THEN IF ~stopped
         THEN IF rxAlive
              THEN /\ chan' = Append(chan, c.data)
                   /\ nSent' = nSent + 1
                   /\ sentBytes' = sentBytes \o c.data
                   /\ pending' = submit(q)
                   /\ nSubmitted' = nSubmitted + 1
                   /\ NextIteration
              ELSE /\ ExitLoop("SendErr")
                   /\ pending' = q
                   /\ UNCHANGED <<chan, nSent, nSubmitted, sentBytes>>
         ELSE /\ pending' = q
              /\ NextIteration
              /\ UNCHANGED <<chan, nSent, nSubmitted, sentBytes>>
    ELSE IF c.st = "cancelled" /\ stopped
    THEN IF Len(q) = 0
         THEN /\ ExitLoop("Ok")
              /\ pending' = q
              /\ UNCHANGED <<chan, nSent, nSubmitted, sentBytes>>
         ELSE /\ pending' = q
              /\ NextIteration
              /\ UNCHANGED <<chan, nSent, nSubmitted, sentBytes>>
    ELSE /\ ExitLoop(UsbError(c.st))
         /\ pending' = q
         /\ UNCHANGED <<chan, nSent, nSubmitted, sentBytes>>

\* The completion arm, lines 281-306: next_complete() is polled after
\* stop_rx and the oldest transfer is complete.  A stop request sent since
\* stop_rx was polled is not seen in this iteration.
LoopComplete ==
    /\ wpc = "polled"
    /\ CompletionReady
    /\ HandleCompletion(Head(pending), Tail(pending))
    /\ UNCHANGED <<speed, state, stopped, writes, runResult, handlerCalls,
                   handlerArg, txAlive, stopRxAlive, queueAlive, signal, cpc, stopRet,
                   okCount, rxAlive, streamVars, wire, unsent, codec>>

\* The loop polls next_complete() on a queue with no pending transfer: the
\* queue panics and the thread starts to unwind; the result handler is never
\* reached.
LoopEmpty ==
    /\ wpc = "polled"
    /\ pending = <<>>
    /\ wpc' = "unwinding"
    /\ UNCHANGED <<speed, state, stopped, pending, writes, loopResult,
                   runResult, handlerCalls, handlerArg, txAlive, stopRxAlive, queueAlive,
                   signal, cpc, stopRet, okCount, nSent, nSubmitted, rxAlive,
                   chan, streamVars, wire, unsent, sentBytes, codec>>

\* Line 312 (and line 262 for a failed enable write, and the unwinding of a
\* panic): the thread is dropping what the future, or run_capture itself,
\* captured: stop_rx, the transfer queue and tx.  They are dropped one after
\* another, and stop() and next() run in between.  The language leaves the
\* order in which captured variables are dropped unspecified, so any order
\* is taken.
Dropping == wpc \in {"exiting", "unwinding"}

\* stop_rx is dropped: from now on a stop() fails to send.
DropStopRx ==
    /\ Dropping
    /\ stopRxAlive
    /\ stopRxAlive' = FALSE
    /\ UNCHANGED <<speed, wpc, state, stopped, pending, writes, loopResult,
                   runResult, handlerCalls, handlerArg, txAlive, queueAlive,
                   signal, cpc, stopRet, okCount, nSent, nSubmitted, rxAlive,
                   chan, streamVars, wire, unsent, sentBytes, codec>>

\* The transfer queue is dropped, and with it every transfer still pending.
DropQueue ==
    /\ Dropping
    /\ queueAlive
    /\ queueAlive' = FALSE
    /\ pending' = <<>>
    /\ UNCHANGED <<speed, wpc, state, stopped, writes, loopResult, runResult,
                   handlerCalls, handlerArg, txAlive, stopRxAlive, signal,
                   cpc, stopRet, okCount, nSent, nSubmitted, rxAlive, chan,
                   streamVars, wire, unsent, sentBytes, codec>>

\* tx is dropped: the channel is closed for the stream.
DropTx ==
    /\ Dropping
    /\ txAlive
    /\ txAlive' = FALSE
    /\ UNCHANGED <<speed, wpc, state, stopped, pending, writes, loopResult,
                   runResult, handlerCalls, handlerArg, stopRxAlive,
                   queueAlive, signal, cpc, stopRet, okCount, nSent,
                   nSubmitted, rxAlive, chan, streamVars, wire, unsent,
                   sentBytes, codec>>

\* Everything captured is dropped.  After a clean loop exit the thread goes
\* on to the disable write; `?` returns an error from run_capture; a panic
\* ends the thread.
CapturesDropped ==
    /\ Dropping
    /\ ~stopRxAlive
    /\ ~queueAlive
    /\ ~txAlive
    /\ IF wpc = "unwinding"
       THEN wpc' = "panicked" /\ runResult' = runResult
       ELSE IF loopResult = "Ok"
       THEN wpc' = "disable" /\ runResult' = runResult
       ELSE /\ wpc' = "report"
            /\ runResult' = IF loopResult = "none" THEN runResult
                                                  ELSE loopResult
    /\ UNCHANGED <<speed, state, stopped, pending, writes, loopResult,
                   handlerCalls, handlerArg, txAlive, stopRxAlive, queueAlive,
                   signal, cpc, stopRet, okCount, nSent, nSubmitted, rxAlive,
                   chan, streamVars, wire, unsent, sentBytes, codec>>

\* run_capture, lines 314-318: clear the enable bit, write the state; the
\* write's failure is run_capture's result.
WriteDisable ==
    /\ wpc = "disable"
    /\ \E ok \in BOOLEAN :
        LET st == set_enable(state, FALSE)
        IN  /\ state' = st
            /\ writes' = write_state(writes, st, ok)
            /\ runResult' = IF ok THEN "Ok" ELSE "WriteErr"
    /\ wpc' = "report"
    /\ UNCHANGED <<speed, stopped, pending, loopResult, handlerCalls,
                   handlerArg, txAlive, stopRxAlive, queueAlive, signal, cpc, stopRet,
                   okCount, nSent, nSubmitted, rxAlive, chan, streamVars,
                   wire, unsent, sentBytes, codec>>

\* Line 320: result_handler(run_capture()): the handler, the caller's code,
\* is entered with run_capture's result.
InvokeHandler ==
    /\ wpc = "report"
    /\ handlerCalls' = handlerCalls + 1
    /\ handlerArg' = runResult
    /\ wpc' = "handler"
    /\ UNCHANGED <<speed, state, stopped, pending, writes, loopResult,
                   runResult, txAlive, stopRxAlive, queueAlive, signal, cpc, stopRet,
                   okCount, nSent, nSubmitted, rxAlive, chan, streamVars,
                   wire, unsent, sentBytes, codec>>

\* Line 320: the handler returns and the thread ends, or the handler panics
\* and the thread unwinds.
HandlerReturns ==
    /\ wpc = "handler"
    /\ \E panic \in BOOLEAN : wpc' = IF panic THEN "panicked" ELSE "done"
    /\ UNCHANGED <<speed, state, stopped, pending, writes, loopResult,
                   runResult, handlerCalls, handlerArg, txAlive, stopRxAlive, queueAlive,
                   signal, cpc, stopRet, okCount, nSent, nSubmitted, rxAlive,
                   chan, streamVars, wire, unsent, sentBytes, codec>>

(* ------------------------------------------------------------------ *)
(* USB transport (environment)                                         *)
(* ------------------------------------------------------------------ *)

\* The transport completes the oldest transfer still in flight: with data,
\* with an error, or as cancelled.  A transfer is reported cancelled when its
\* cancellation was requested, and also when the operating system cancels it
\* on its own (the device is unplugged or its interface released).
TransferCompletes ==
    /\ InLoop
    /\ \E i \in 1..Len(pending) :
        /\ pending[i].st = "inflight"
        /\ \A j \in 1..(i - 1) : pending[j].st # "inflight"
        /\ \E s \in Statuses, d \in Chunks :
            /\ IF s = "ok"
               THEN /\ okCount < MaxOk
                    /\ okCount' = okCount + 1
                    /\ pending' = [pending EXCEPT ![i] =
                                       Transfer("ok", d, pending[i].cancel)]
               ELSE /\ okCount' = okCount
                    /\ pending' = [pending EXCEPT ![i] =
                                       Transfer(s, <<>>, pending[i].cancel)]
    /\ UNCHANGED <<speed, wpc, state, stopped, writes, loopResult, runResult,
                   handlerCalls, handlerArg, txAlive, stopRxAlive, queueAlive, signal,
                   cpc, stopRet, nSent, nSubmitted, rxAlive, chan, streamVars,
                   wire, unsent, sentBytes, codec>>

(* ------------------------------------------------------------------ *)
(* Stop handle: CynthionStop                                           *)
(* ------------------------------------------------------------------ *)

\* stop(), lines 396-398: send the stop request; if the receiver is gone,
\* return the failure at once (the join handle is dropped unjoined).
Stop ==
    /\ cpc = "hold"
    /\ IF stopRxAlive
       THEN signal' = "value" /\ cpc' = "joining" /\ stopRet' = stopRet
       ELSE signal' = "closed" /\ cpc' = "returned" /\ stopRet' = "SendFailed"
    /\ UNCHANGED <<workerVars, streamVars, inputVars, txAlive, rxAlive, chan,
                   nSent, unsent, sentBytes, codec>>

\* stop(), lines 399-412: join the worker; Ok(()) if it returned, the panic
\* message as an error if it panicked.
Join ==
    /\ cpc = "joining"
    /\ wpc \in {"done", "panicked"}
    /\ stopRet' = IF wpc = "done" THEN "Ok" ELSE "WorkerPanic"
    /\ cpc' = "returned"
    /\ UNCHANGED <<workerVars, streamVars, inputVars, signal, txAlive,
                   rxAlive, chan, nSent, unsent, sentBytes, codec>>

\* The CynthionStop is dropped without stop(): the oneshot sender is dropped
\* with no value sent, the thread is detached.  A drop that lands while the
\* loop is polling stop_rx makes that poll return Err(Canceled); any other
\* drop leaves the receiver terminated, never to be polled again.
DropStop ==
    /\ cpc = "hold"
    /\ cpc' = "dropped"
    /\ \/ signal' = "closed"
       \/ wpc = "loop" /\ stopRxAlive /\ signal' = "canceled"
    /\ UNCHANGED <<workerVars, streamVars, inputVars, stopRet, txAlive,
                   rxAlive, chan, nSent, unsent, sentBytes, codec>>

(* ------------------------------------------------------------------ *)
(* Packet stream: CynthionStream                                       *)
(* ------------------------------------------------------------------ *)

\* One pass of next()'s loop over the buffer `buf`: return the packet
\* next_buffered_packet extracts, or go on to receiver.recv().
TryPacket(buf) ==
    LET r == next_buffered_packet(buf)
    IN  /\ buffer' = r.buffer
        /\ IF r.some
           THEN yielded' = Append(yielded, r.packet) /\ spc' = "idle"
           ELSE yielded' = yielded /\ spc' = "recv"

\* next() is called (again after MaxEnd ends, at most).
StreamNext ==
    /\ spc = "idle"
    /\ rxAlive
    /\ endCount <= MaxEnd
    /\ TryPacket(buffer)
    /\ UNCHANGED <<workerVars, callerVars, inputVars, endCount, signal,
                   txAlive, rxAlive, chan, nSent, unsent, sentBytes, codec>>

\* Mutant: recv() does not block on an empty channel whose sender is alive
\* (as try_recv would), and next() returns None.
StreamRecvNoBlock ==
    /\ spc = "recv"
    /\ IF chan # <<>>
       THEN /\ chan' = Tail(chan)
            /\ TryPacket(buffer \o Head(chan))
            /\ endCount' = endCount
       ELSE /\ TRUE
            /\ spc' = "idle"
            /\ endCount' = endCount + 1
            /\ UNCHANGED <<chan, buffer, yielded>>
    /\ UNCHANGED <<workerVars, callerVars, inputVars, signal, txAlive,
                   rxAlive, nSent, unsent, sentBytes, codec>>

\* next() inside receiver.recv(): a chunk arrives, is appended to the buffer
\* and the loop retries; or the sender is gone and the channel empty, and
\* next() returns None.  Otherwise recv() blocks.
StreamRecv ==
    /\ spc = "recv"
    /\ IF chan # <<>>
       THEN /\ chan' = Tail(chan)
            /\ TryPacket(buffer \o Head(chan))
            /\ endCount' = endCount
       ELSE /\ ~txAlive
            /\ spc' = "idle"
            /\ endCount' = endCount + 1
            /\ UNCHANGED <<chan, buffer, yielded>>
    /\ UNCHANGED <<workerVars, callerVars, inputVars, signal, txAlive,
                   rxAlive, nSent, unsent, sentBytes, codec>>

\* The stream is dropped by its owner (between calls of next()).
DropStream ==
    /\ spc = "idle"
    /\ rxAlive
    /\ rxAlive' = FALSE
    /\ chan' = <<>>
    /\ spc' = "dropped"
    /\ UNCHANGED <<workerVars, callerVars, inputVars, buffer, yielded,
                   endCount, signal, txAlive, nSent, unsent, sentBytes, codec>>

(* ------------------------------------------------------------------ *)
(* The capture session                                                 *)
(* ------------------------------------------------------------------ *)

Worker == StartCapture \/ LoopStop \/ LoopPollStop \/ LoopWake
          \/ LoopComplete \/ LoopEmpty
          \/ DropStopRx \/ DropQueue \/ DropTx \/ CapturesDropped
          \/ WriteDisable \/ InvokeHandler \/ HandlerReturns

Next ==
    \/ StartCapture
    \/ LoopStop
    \/ LoopPollStop
    \/ LoopWake
    \/ LoopComplete
    \/ LoopEmpty
    \/ DropStopRx
    \/ DropQueue
    \/ DropTx
    \/ CapturesDropped
    \/ WriteDisable
    \/ InvokeHandler
    \/ HandlerReturns
    \/ TransferCompletes
    \/ Stop
    \/ Join
    \/ DropStop
    \/ StreamNext
    \/ StreamRecv
    \/ DropStream

Spec == Init /\ [][Next]_vars

\* The capture thread is scheduled, the transport completes every
\* outstanding transfer, a join returns once the thread has ended, and a
\* reader blocked in recv() is woken.
FairSpec ==
    /\ Init
    /\ [][Next]_vars
    /\ WF_vars(Worker)
    /\ WF_vars(TransferCompletes)
    /\ WF_vars(Join)
    /\ WF_vars(StreamRecv)


(* ------------------------------------------------------------------ *)
(* The stream alone, fed a chosen input                                *)
(* ------------------------------------------------------------------ *)

\* A buffer whose head is an incomplete frame: fewer than 2 bytes, or fewer
\* payload bytes than the length prefix announces.
Truncated(buf) ==
    Len(buf) < 2 \/ Len(buf) < 2 + from_be_bytes(buf[1], buf[2])

\* The decomposition of a byte stream by the wire format: the packets whose
\* frames are complete, and the truncated fragment left after them.
RECURSIVE Parse(_)
Parse(w) ==
    IF Truncated(w) THEN [packets |-> <<>>, tail |-> w]
    ELSE LET n == from_be_bytes(w[1], w[2])
             rest == Parse(SubSeq(w, 3 + n, Len(w)))
         IN  [packets |-> <<SubSeq(w, 3, 2 + n)>> \o rest.packets,
              tail |-> rest.tail]

\* The packets and the trailing fragment of the input.
packets == Parse(wire).packets
tail == Parse(wire).tail

\* 00 03 AA BB CC 00 00
ScenarioWire == <<0, 3, 170, 187, 204, 0, 0>>

Inputs == SeqsUpTo(WireBytes, MaxWire) \cup {ScenarioWire}

InitDeframe ==
    /\ wire \in Inputs
    /\ unsent = wire
    /\ speed = High
    /\ wpc = "loop"
    /\ state = State_new(TRUE, High)
    /\ stopped = FALSE
    /\ pending = fill(<<>>)
    /\ writes = write_state(<<>>, State_new(TRUE, High), TRUE)
    /\ loopResult = "none"
    /\ runResult = "none"
    /\ handlerCalls = 0
    /\ handlerArg = "none"
    /\ txAlive = TRUE
    /\ stopRxAlive = TRUE
    /\ queueAlive = TRUE
    /\ signal = "open"
    /\ cpc = "hold"
    /\ stopRet = "none"
    /\ okCount = 0
    /\ nSent = 0
    /\ nSubmitted = NUM_TRANSFERS
    /\ rxAlive = TRUE
    /\ chan = <<>>
    /\ buffer = <<>>
    /\ yielded = <<>>
    /\ spc = "idle"
    /\ endCount = 0
    /\ sentBytes = <<>>
    /\ codec = NoCodec

\* tx.send(data), line 287, with the next k bytes of the input as the data
\* (at most MaxWire chunks, some of them possibly empty).
ProducerSend ==
    /\ txAlive
    /\ Len(chan) < MaxChan
    /\ nSent < MaxWire
    /\ \E k \in 0..Len(unsent) :
        /\ chan' = Append(chan, SubSeq(unsent, 1, k))
        /\ unsent' = SubSeq(unsent, k + 1, Len(unsent))
        /\ sentBytes' = sentBytes \o SubSeq(unsent, 1, k)
    /\ nSent' = nSent + 1
    /\ UNCHANGED <<workerVars, callerVars, streamVars, inputVars, signal,
                   txAlive, rxAlive, codec>>

\* The producer has sent the whole input and drops tx (the capture loop
\* exits).
ProducerClose ==
    /\ txAlive
    /\ unsent = <<>>
    /\ txAlive' = FALSE
    /\ UNCHANGED <<workerVars, callerVars, streamVars, inputVars, signal,
                   rxAlive, chan, nSent, unsent, sentBytes, codec>>

NextDeframe ==
    \/ ProducerSend
    \/ ProducerClose
    \/ StreamNext
    \/ StreamRecv

DeframeSpec == InitDeframe /\ [][NextDeframe]_vars


(* ------------------------------------------------------------------ *)
(* The speed query and the state byte alone                            *)
(* ------------------------------------------------------------------ *)

\* Sizes of the response to the speed request, and the values of its byte.
RespSizes == {0, 1, 2}
Bytes == 0..255

\* Every response to the speed request, every argument pair of State::new;
\* no capture session is running.
InitCodec ==
    /\ codec \in {Codec(sz, b, NotCalled, en, "none") :
                      sz \in RespSizes, b \in Bytes, en \in BOOLEAN}
    /\ speed \in Speed
    /\ wpc = "start"
    /\ state = 0
    /\ stopped = FALSE
    /\ pending = <<>>
    /\ writes = <<>>
    /\ loopResult = "none"
    /\ runResult = "none"
    /\ handlerCalls = 0
    /\ handlerArg = "none"
    /\ txAlive = TRUE
    /\ stopRxAlive = TRUE
    /\ queueAlive = FALSE
    /\ signal = "open"
    /\ cpc = "hold"
    /\ stopRet = "none"
    /\ okCount = 0
    /\ nSent = 0
    /\ nSubmitted = 0
    /\ rxAlive = TRUE
    /\ chan = <<>>
    /\ buffer = <<>>
    /\ yielded = <<>>
    /\ spc = "idle"
    /\ endCount = 0
    /\ wire = <<>>
    /\ unsent = <<>>
    /\ sentBytes = <<>>

\* speeds() is called and returns.
QuerySpeeds ==
    /\ ~codec.called
    /\ LET r == speeds(codec.size, codec.byte)
       IN  codec' = [codec EXCEPT !.called = TRUE, !.ok = r.ok,
                                  !.list = r.list]
    /\ UNCHANGED <<workerVars, callerVars, streamVars, inputVars, signal,
                   txAlive, rxAlive, chan, nSent, unsent, sentBytes>>

\* State::new(enabled, speed), as in line 261.
NewState ==
    /\ codec.phase = "none"
    /\ state' = State_new(codec.enabled, speed)
    /\ codec' = [codec EXCEPT !.phase = "new"]
    /\ UNCHANGED <<speed, wpc, stopped, pending, writes, loopResult,
                   runResult, handlerCalls, handlerArg, txAlive, stopRxAlive, queueAlive,
                   signal, cpc, stopRet, okCount, nSent, nSubmitted, rxAlive,
                   chan, streamVars, wire, unsent, sentBytes>>

\* state.set_enable(false), as in line 315.
ClearEnable ==
    /\ codec.phase = "new"
    /\ state' = set_enable(state, FALSE)
    /\ codec' = [codec EXCEPT !.phase = "cleared"]
    /\ UNCHANGED <<speed, wpc, stopped, pending, writes, loopResult,
                   runResult, handlerCalls, handlerArg, txAlive, stopRxAlive, queueAlive,
                   signal, cpc, stopRet, okCount, nSent, nSubmitted, rxAlive,
                   chan, streamVars, wire, unsent, sentBytes>>

NextCodec ==
    \/ QuerySpeeds
    \/ NewState
    \/ ClearEnable

CodecSpec == InitCodec /\ [][NextCodec]_vars


(* ------------------------------------------------------------------ *)
(* Claims                                                              *)
(* ------------------------------------------------------------------ *)

\* Successful completions still waiting in the queue.
OkWaiting == Cardinality({i \in DOMAIN pending : pending[i].st = "ok"})

\* C1: once cancellation has been observed by the running loop (every
\* outstanding transfer then completing, in any order and with any status),
\* the pool eventually drains to zero pending transfers and the event loop
\* terminates, i.e. capture_task returns a result.
C1_CancelTerminates ==
    (stopped /\ InLoop) ~> (pending = <<>> /\ loopResult # "none")

\* C2: once the loop has observed the cancellation signal (flag set), no
\* chunk is sent on the channel again, whatever completes; and an iteration
\* that begins with a stop request waiting handles no completion (the stop
\* arm is taken first).
C2_NoSendAfterCancel ==
    [][ /\ stopped => (nSent' = nSent /\ Len(chan') <= Len(chan))
        /\ (wpc = "loop" /\ StopReady) =>
              (nSent' = nSent /\ Len(pending') = Len(pending) /\ wpc' = "loop")
      ]_vars

\* C2 witness: the loop is stopped and has consumed a successful completion
\* without forwarding it.
C2_Witness ==
    /\ InLoop
    /\ stopped
    /\ okCount > nSent + OkWaiting

\* C3: the step that receives the cancellation signal requests cancellation
\* of every outstanding transfer and sets the flag; once the flag is set no
\* transfer is submitted and the number of pending transfers never grows.
C3_CancelAllNoResubmit ==
    [][ /\ (StopReady /\ signal' = "taken") =>
              /\ stopped'
              /\ Len(pending') = Len(pending)
              /\ \A i \in DOMAIN pending' : pending'[i].cancel
        /\ stopped =>
              /\ stopped'
              /\ nSubmitted' = nSubmitted
              /\ Len(pending') <= Len(pending)
      ]_vars

\* C3 witness: the signal was received with transfers outstanding, all of
\* them now cancelled, and some already drained.
C3_Witness ==
    /\ InLoop
    /\ stopped
    /\ signal = "taken"
    /\ Len(pending) \in 1..(NUM_TRANSFERS - 1)
    /\ \A i \in DOMAIN pending : pending[i].cancel

\* stop() has returned after its request was delivered (the send succeeded,
\* whether or not the loop came to take the value) and the capture thread
\* ended without a panic.
StopDelivered ==
    /\ cpc = "returned"
    /\ signal \in {"value", "taken"}
    /\ wpc = "done"

\* C4: when the signal was delivered and the worker did not fault, the value
\* stop() returns is the terminal result the capture loop produced (Ok, or
\* the transfer error it ended with), also when stop was requested as well.
C4_StopReturnsLoopResult ==
    (StopDelivered /\ loopResult # "none") => stopRet = loopResult

\* C5: for every started capture the result handler is invoked exactly once
\* (never twice, and once by the time the capture thread has ended), only
\* after the event loop has exited, with the combined terminal result.  (The
\* claim's clause on the value of stop() is C4's.)
C5_HandlerExactlyOnce ==
    /\ handlerCalls <= 1
    /\ wpc \in {"done", "panicked"} => handlerCalls = 1
    /\ handlerCalls = 1 =>
          /\ wpc \in {"handler", "done", "panicked"}
          /\ runResult # "none"
          /\ handlerArg = runResult

\* The last write_state request is the disable state of the session's speed.
DisableWritten ==
    /\ Len(writes) = 2
    /\ writes[2].value = State_new(FALSE, speed)

\* C6: once the event loop has exited, cleanly or with an error, the disable
\* state (enabled = false, same speed) has been written before the result
\* handler is invoked; if the loop exited cleanly and that write failed, the
\* reported result is the write failure.
C6_DisableBeforeReport ==
    (handlerCalls >= 1 /\ loopResult # "none") =>
        /\ DisableWritten
        /\ (loopResult = "Ok" /\ ~writes[2].ok) => handlerArg = "WriteErr"

\* The enable write failed.
EnableFailed == Len(writes) >= 1 /\ ~writes[1].ok

\* C7: if writing the enable state fails, the loop is never entered: no bulk
\* transfer is submitted, no chunk is placed on the channel, nothing else is
\* written, the handler receives the write error, and the stream yields no
\* packet and finds the channel closed and empty.
C7_EnableFailureIsFatal ==
    EnableFailed =>
        /\ wpc \in {"exiting", "report", "handler", "done", "panicked"}
        /\ loopResult = "none"
        /\ runResult = "WriteErr"
        /\ nSubmitted = 0
        /\ pending = <<>>
        /\ nSent = 0
        /\ chan = <<>>
        /\ wpc # "exiting" => ~txAlive
        /\ Len(writes) = 1
        /\ yielded = <<>>
        /\ buffer = <<>>
        /\ handlerCalls = (IF wpc \in {"exiting", "report"} THEN 0 ELSE 1)
        /\ handlerCalls = 1 => handlerArg = "WriteErr"

\* C7 witness: the enable write failed, the handler has been given the
\* error and the stream has ended.
C7_Witness ==
    /\ EnableFailed
    /\ handlerCalls = 1
    /\ handlerArg = "WriteErr"
    /\ endCount >= 1

\* C8: when the input is the serialization of N packets (each as a 2-byte
\* big-endian length and the payload), delivered in any split into chunks
\* and followed by the producer closing, the stream has yielded exactly
\* those N packets, in order, when next() returns None.
C8_DeframingExact ==
    (wire = Serialize(packets) /\ endCount >= 1) => yielded = packets

\* The head of the buffer is a frame that fits the buffer exactly.
ExactFit(buf) ==
    Len(buf) >= 2 /\ Len(buf) = 2 + from_be_bytes(buf[1], buf[2])

\* The buffer next() looks at in this step: the buffer, with the received
\* chunk appended when the step is a receive.
LookedAt == IF spc = "recv" /\ chan # <<>> THEN buffer \o Head(chan) ELSE buffer

\* This step is a pass of next()'s loop over the buffer.
LooksAtBuffer ==
    /\ <<buffer, yielded, spc>>' # <<buffer, yielded, spc>>
    /\ endCount' = endCount

\* C9: when next() looks at a buffer that holds exactly 2 + payload_len
\* bytes, it yields no packet and leaves the buffer as it is (waiting for
\* more data); whenever it yields a packet, strictly more than
\* 2 + payload_len bytes were buffered.
C9_ExactFitWaits ==
    [][ LooksAtBuffer =>
          /\ ExactFit(LookedAt) =>
                (yielded' = yielded /\ buffer' = LookedAt /\ spc' = "recv")
          /\ yielded' # yielded =>
                /\ Len(LookedAt) > 2
                /\ Len(LookedAt) >
                      2 + from_be_bytes(LookedAt[1], LookedAt[2])
      ]_vars

\* C9 witness: next() has looked at an exactly fitting frame (of a nonempty
\* payload) and is waiting in recv() with the buffer untouched.
C9_Witness ==
    /\ spc = "recv"
    /\ ExactFit(buffer)
    /\ Len(buffer) > 2

\* The producer has closed and the stream is left with a truncated frame.
ClosedTruncated == ~txAlive /\ chan = <<>> /\ Truncated(buffer)

\* C10: once the producer has closed with a truncated frame left in the
\* buffer, next() yields nothing for it and returns None (the buffer and the
\* packets yielded do not change, a call in recv() returns None), and after
\* next() has returned None no later call yields a packet.
C10_TruncatedTailEnds ==
    [][ /\ ClosedTruncated =>
              /\ yielded' = yielded
              /\ buffer' = buffer
              /\ endCount' >= endCount
              /\ (spc = "recv" /\ spc' # spc) =>
                    (spc' = "idle" /\ endCount' = endCount + 1)
        /\ endCount >= 1 =>
              (yielded' = yielded /\ buffer' = buffer /\ endCount' >= endCount)
      ]_vars

\* C10 witness: the producer closed on a length prefix with part of its
\* payload, and next() has returned None twice.
C10_Witness ==
    /\ ClosedTruncated
    /\ Len(buffer) > 2
    /\ endCount >= 2
    /\ tail = buffer

\* C11: stop() does not return before the capture thread has terminated,
\* whether or not the stop request could be delivered: whenever stop() has
\* returned, the thread has returned or unwound.
C11_StopJoins ==
    cpc = "returned" => wpc \in {"done", "panicked"}

\* C12: a stop() that is invoked, or is joining, after the capture thread
\* panicked returns the worker-fault failure.
C12_PanicReportedAsWorkerFault ==
    [][(wpc = "panicked" /\ cpc # "returned" /\ cpc' = "returned")
           => stopRet' = "WorkerPanic"]_vars

\* The bit of the response byte that flags a speed: bit 0 Auto, bit 1 Low,
\* bit 2 Full, bit 3 High.
FlagBit(sp) ==
    CASE sp = Auto -> 0
      [] sp = Low  -> 1
      [] sp = Full -> 2
      [] sp = High -> 3
IsFlagged(sp) == (codec.byte \div (2 ^ FlagBit(sp))) % 2 = 1

\* C13: for every 1-byte response, speeds() returns exactly the flagged
\* speeds, each once, in the order Auto, High, Full, Low; nothing when no bit
\* of 0b1111 is set; 0b1100 gives [High, Full].
C13_SpeedsDecode ==
    (codec.called /\ codec.size = 1) =>
        /\ codec.ok
        /\ codec.list = SelectSeq(<<Auto, High, Full, Low>>, IsFlagged)
        /\ (codec.byte % 16 = 0 => codec.list = <<>>)
        /\ (codec.byte = 12 => codec.list = <<High, Full>>)

\* speeds() has decoded the response 0b1100.
C13_Witness ==
    /\ codec.called
    /\ codec.size = 1
    /\ codec.byte = 12
    /\ codec.list = <<High, Full>>

\* C14: the byte State::new(enabled, speed) produces has bit 0 equal to
\* enabled, bits 1-2 decoding to speed and bits 3-7 zero; set_enable(false)
\* on it clears bit 0 and leaves the other bits as they were.
C14_StateRoundTrip ==
    /\ codec.phase = "new" =>
          /\ enable_of(state) = codec.enabled
          /\ state % 2 = (IF codec.enabled THEN 1 ELSE 0)
          /\ speed_of(state) = speed
          /\ state \in 0..7
    /\ codec.phase = "cleared" =>
          /\ state % 2 = 0
          /\ speed_of(state) = speed
          /\ state \in 0..7
          /\ state \div 2 = State_new(codec.enabled, speed) \div 2

\* An enabled Low-speed state byte was built and its enable bit cleared.
C14_Witness ==
    /\ codec.phase = "cleared"
    /\ codec.enabled
    /\ speed = Low
    /\ state = 4

\* The transfer pool is at most NUM_TRANSFERS, and exactly that while the
\* loop runs and has not been stopped.
PoolFull ==
    /\ Len(pending) <= NUM_TRANSFERS
    /\ (InLoop /\ ~stopped) => Len(pending) = NUM_TRANSFERS

\* The loop retrieves the oldest completion and runs the completion arm.
LoopStep ==
    /\ wpc = "polled"
    /\ CompletionReady
    /\ nSent' # nSent \/ Len(pending') < Len(pending)

\* C15: while the loop runs and is not stopped the pool holds NUM_TRANSFERS
\* transfers, and never more in any state; handling a successful completion
\* (consumer present) forwards its data and submits exactly one new transfer.
C15_PoolStaysFull ==
    [][/\ PoolFull
       /\ PoolFull'
       /\ (LoopStep /\ ~stopped /\ rxAlive /\ Head(pending).st = "ok")
          => /\ chan' = Append(chan, Head(pending).data)
             /\ nSent' = nSent + 1
             /\ nSubmitted' = nSubmitted + 1
             /\ pending' = Append(Tail(pending), NewTransfer)
             /\ wpc' = "loop"]_vars

\* Two chunks were forwarded and the pool refilled each time.
C15_Witness ==
    /\ InLoop
    /\ ~stopped
    /\ nSent = 2
    /\ nSubmitted = NUM_TRANSFERS + 2
    /\ Len(pending) = NUM_TRANSFERS

\* A completed transfer that failed, other than cancelled while stopped.
NonBenignFailure(c) ==
    /\ c.st \notin {"inflight", "ok"}
    /\ ~(c.st = "cancelled" /\ stopped)

\* C16: when the loop retrieves a completion that failed other than as
\* cancelled-while-stopped (so also one cancelled while not stopped), it ends
\* at once with that failure as the result, whether or not it was stopped
\* and however many transfers are pending; nothing is forwarded or
\* submitted, and that failure is what run_capture returns.
C16_FailureEndsLoop ==
    [][/\ (LoopStep /\ NonBenignFailure(Head(pending)))
          => /\ loopResult' = (IF Head(pending).st = "cancelled"
                               THEN "TransferCancelled" ELSE "TransferStall")
             /\ wpc' = "exiting"
             /\ nSent' = nSent
             /\ nSubmitted' = nSubmitted
       /\ (wpc = "exiting" /\ loopResult \notin {"none", "Ok"}
           /\ wpc' # wpc)
          => /\ wpc' = "report"
             /\ runResult' = loopResult
             /\ ~txAlive'
             /\ nSent' = nSent
             /\ nSubmitted' = nSubmitted]_vars

\* A transfer was reported cancelled while the loop was not stopped; the
\* loop ended with it and the handler received it.
C16_Witness ==
    /\ ~stopped
    /\ loopResult = "TransferCancelled"
    /\ handlerCalls = 1
    /\ handlerArg = "TransferCancelled"

\* C17: the loop returns Ok only when stopped and on retrieving the last
\* pending transfer as cancelled; a cancelled completion retrieved while
\* stopped is discarded, ending the loop with Ok exactly when no transfer is
\* pending after it, and otherwise leaving the loop running.
C17_OkOnlyWhenDrained ==
    [][/\ (loopResult = "none" /\ loopResult' = "Ok")
          => /\ stopped
             /\ wpc = "polled"
             /\ Len(pending) = 1
             /\ Head(pending).st = "cancelled"
       /\ loopResult' = "Ok" => (stopped' /\ pending' = <<>>)
       /\ (LoopStep /\ Head(pending).st = "cancelled" /\ stopped)
          => /\ nSent' = nSent
             /\ nSubmitted' = nSubmitted
             /\ chan' = chan
             /\ IF Len(pending) = 1
                THEN loopResult' = "Ok" /\ wpc' = "exiting"
                ELSE /\ pending' = Tail(pending)
                     /\ loopResult' = "none"
                     /\ wpc' = "loop"]_vars

\* The loop was stopped, drained its queue and returned Ok.
C17_Witness ==
    /\ stopped
    /\ loopResult = "Ok"
    /\ wpc = "disable"
    /\ pending = <<>>

\* The bytes of a sequence of chunks, in order.
RECURSIVE Concat(_)
Concat(chunks) ==
    IF chunks = <<>> THEN <<>> ELSE Head(chunks) \o Concat(Tail(chunks))

\* C18: next() returns None only when the capture loop has exited (or was
\* never entered) and the sender is dropped, and the channel is empty, all
\* bytes sent having reached the buffer; the bytes the stream has taken in
\* (packets returned, with their length prefixes, then the buffer) followed
\* by those still in the channel are the bytes sent, in the order sent.
C18_EndOnlyAfterClose ==
    [][/\ endCount' > endCount
          => /\ ~txAlive
             /\ wpc # "start"
             /\ ~InLoop
             /\ chan = <<>>
             /\ Serialize(yielded) \o buffer = sentBytes
       /\ rxAlive'
          => Serialize(yielded') \o buffer' \o Concat(chan') = sentBytes'
      ]_vars

\* Two chunks were sent, a packet was returned from them, and next() has
\* returned None after the loop exited.
C18_Witness ==
    /\ endCount >= 1
    /\ nSent = 2
    /\ yielded # <<>>
    /\ rxAlive
    /\ ~txAlive

\* C19: once the stop handle has been dropped without stop(), the loop acts
\* as on a stop request: an iteration that begins after the drop takes the
\* stop arm, so it does not go on to next_complete(), forwards no chunk and
\* submits no transfer.
C19_DropActsAsStop ==
    [][(cpc = "dropped" /\ wpc = "loop" /\ ~stopped)
           => /\ nSent' = nSent
              /\ nSubmitted' = nSubmitted
              /\ wpc' = "loop"]_vars

\* C20: with the stream dropped and the loop not stopped, the loop's step on
\* a successful completion ends it with the send error, forwarding and
\* submitting nothing; run_capture returns that error and the handler is
\* given it; stop_rx is dropped by the time run_capture has returned, and a
\* stop() invoked once stop_rx is dropped (so any stop() after run_capture
\* returned, and one that finds the queue and tx still alive too) fails to
\* send and returns the failure without a stop request being left.
C20_ConsumerGoneEndsLoop ==
    [][/\ (LoopStep /\ ~stopped /\ ~rxAlive /\ Head(pending).st = "ok")
          => /\ loopResult' = "SendErr"
             /\ wpc' = "exiting"
             /\ nSent' = nSent
             /\ nSubmitted' = nSubmitted
       /\ (wpc = "exiting" /\ loopResult = "SendErr" /\ wpc' # wpc)
          => /\ wpc' = "report"
             /\ runResult' = "SendErr"
             /\ ~stopRxAlive'
             /\ nSubmitted' = nSubmitted
       /\ (loopResult = "SendErr" /\ handlerCalls' = handlerCalls + 1)
          => handlerArg' = "SendErr"
       /\ (loopResult = "SendErr" /\ wpc # "exiting") => ~stopRxAlive
       /\ (loopResult = "SendErr" /\ ~stopRxAlive /\ cpc = "hold"
           /\ cpc' \notin {"hold", "dropped"})
          => /\ cpc' = "returned"
             /\ stopRet' = "SendFailed"
             /\ signal' # "value"]_vars

\* The stream was dropped, the loop ended with the send error, the handler
\* received it and a later stop() failed to send.
C20_Witness ==
    /\ ~rxAlive
    /\ ~stopped
    /\ loopResult = "SendErr"
    /\ handlerCalls = 1
    /\ handlerArg = "SendErr"
    /\ stopRet = "SendFailed"

====
